---- MODULE Spec2Model ----
(***************************************************************************)
(* dpymenus: the session registry, page navigation, bounded history and    *)
(* the button-driven menu loop (BaseMenu / ButtonMenu).                    *)
(*                                                                         *)
(* A menu's methods are translated as functions on a "world" record w that *)
(* holds the registry and every menu's fields; w.exc carries the exception *)
(* a call raised ("none" when it returned).  A statement after a raising   *)
(* call is skipped, the assignments before it are kept, as in Python.      *)
(***************************************************************************)
EXTENDS Integers, Sequences, FiniteSets, TLC

\* ---------------------------------------------------------------- bounds
MaxPages == 3
\* dpymenus.config.HISTORY_CACHE_LIMIT; small, so that eviction happens
HISTORY_CACHE_LIMIT == 3

\* ------------------------------------------------------------- universe
Menus == {"m1", "m2"}
\* (ctx.author.id, ctx.channel.id); the first channel is a guild channel,
\* the second a private one
Identities == {<<"u1", "guild">>, <<"u1", "dm">>}
Buttons == {"b1", "b2"}
NoMenu == "NoMenu"
NoInput == "None"
CtxMessage == "ctx.message"
NoMsg == [kind |-> "None", content |-> 0, reactions |-> {}]
TimedOutEmbed == -1
TaskNames == {"add", "remove", "poll"}
NoTask == [st |-> "none", result |-> NoInput]
NoEvent == [user |-> "None", msg |-> "None", emoji |-> "None"]

\* a Page as the menus read it; index is assigned by add_pages
Adv == [on_next |-> "advance", buttons |-> {"b1"}, on_cancel |-> FALSE, on_timeout |-> FALSE, on_fail |-> FALSE]
AdvHooks == [on_next |-> "reload", buttons |-> {"b1", "b2"}, on_cancel |-> TRUE, on_timeout |-> TRUE, on_fail |-> FALSE]
Term == [on_next |-> "None", buttons |-> {}, on_cancel |-> FALSE, on_timeout |-> FALSE, on_fail |-> FALSE]
\* the page lists the callers of the main specification pass to add_pages
PageBatches == {<<Adv, Term>>, <<AdvHooks, Term>>, <<Adv, Adv, Term>>, <<Adv, AdvHooks>>, <<Term>>}

VARIABLES sessions, ident, pages, page, active, input, output, history,
          persist, timeoutAttr, pc, firstIter, iterPage, tasks, lastOp

vars == <<sessions, ident, pages, page, active, input, output, history,
          persist, timeoutAttr, pc, firstIter, iterPage, tasks, lastOp>>

\* ---------------------------------------------------------- the world
World == [sessions |-> sessions, pages |-> pages, page |-> page, active |-> active,
          input |-> input, output |-> output, history |-> history, exc |-> "none",
          rendered |-> FALSE, deleted |-> FALSE, evicted |-> FALSE,
          cancelCalls |-> 0, timeoutCalls |-> 0, nextCalls |-> 0, readded |-> FALSE]

Raise(w, e) == [w EXCEPT !.exc = e]

\* self.page.index; page[s] is the position of the current Page object in
\* self.pages (0 while self.page is None)
Index(w, s) == w.pages[s][w.page[s]].index

\* self.pages[i] with Python's indexing: 0-based, negative from the end
PyValid(w, s, i) == i >= 0 - Len(w.pages[s]) /\ i < Len(w.pages[s])
PyPos(w, s, i) == IF i >= 0 THEN i + 1 ELSE Len(w.pages[s]) + i + 1

Key(s) == ident[s]
IsGuild(s) == ident[s][2] = "guild"

\* ----------------------------------------------------------- BaseMenu
\* update_history evicting one entry too late
update_history_gt(w, s) ==
    LET full == Len(w.history[s]) > HISTORY_CACHE_LIMIT
        kept == IF full THEN Tail(w.history[s]) ELSE w.history[s]
    IN  [w EXCEPT !.history[s] = Append(kept, Index(w, s)), !.evicted = full]

\* update_history
update_history(w, s) ==
    LET full == Len(w.history[s]) >= HISTORY_CACHE_LIMIT
        kept == IF full THEN Tail(w.history[s]) ELSE w.history[s]
    IN  [w EXCEPT !.history[s] = Append(kept, Index(w, s)), !.evicted = full]

\* last_visited_page
last_visited_page(w, s) ==
    IF Len(w.history[s]) > 1 THEN w.history[s][Len(w.history[s]) - 1] ELSE 0

\* send_message(embed): edit in a guild channel, delete and re-send elsewhere
send_message(w, s, content) ==
    IF w.output[s] = NoMsg THEN Raise(w, "AttributeError")
    ELSE IF IsGuild(s)
         THEN [w EXCEPT !.output[s].content = content, !.rendered = TRUE]
         ELSE [w EXCEPT !.output[s] = [kind |-> "Message", content |-> content, reactions |-> {}],
                        !.rendered = TRUE]

\* close_session
close_session(w, s) ==
    IF w.sessions[Key(s)] = NoMenu THEN Raise(w, "KeyError")
    ELSE [w EXCEPT !.sessions[Key(s)] = NoMenu, !.active[s] = FALSE]

\* _start_session without the test for an existing key
_start_session_overwrite(w, s) == [w EXCEPT !.sessions[Key(s)] = s]

\* _start_session
_start_session(w, s) ==
    IF w.sessions[Key(s)] # NoMenu THEN Raise(w, "SessionError")
    ELSE [w EXCEPT !.sessions[Key(s)] = s]

\* _post_next without the close on a page that has no on_next hook
_post_next_keep_open(w, s) == send_message(update_history(w, s), s, w.page[s])

\* _post_next; every menu of the model is a ButtonMenu, never a PaginatedMenu
_post_next(w, s) ==
    LET w1 == IF w.pages[s][w.page[s]].on_next = "None"
              THEN LET c == close_session(w, s)
                   IN IF c.exc # "none" THEN c ELSE [c EXCEPT !.active[s] = FALSE]
              ELSE w
        w2 == IF w1.exc # "none" THEN w1 ELSE update_history(w1, s)
    IN  IF w2.exc # "none" THEN w2 ELSE send_message(w2, s, w2.page[s])

\* the boundary test of next() against len(pages) instead of len(pages) - 1
NextAtEnd_off_by_one(w, s) == Index(w, s) + 1 > Len(w.pages[s])

\* next
NextAtEnd(w, s) == Index(w, s) + 1 > Len(w.pages[s]) - 1
next(w, s) ==
    IF w.page[s] = 0 THEN Raise(w, "AttributeError")
    ELSE IF NextAtEnd(w, s) THEN w
    ELSE IF ~PyValid(w, s, Index(w, s) + 1) THEN Raise(w, "IndexError")
    ELSE _post_next([w EXCEPT !.page[s] = PyPos(w, s, Index(w, s) + 1)], s)

\* previous
PreviousAtStart(w, s) == Index(w, s) - 1 < 0
previous(w, s) ==
    IF w.page[s] = 0 THEN Raise(w, "AttributeError")
    ELSE IF PreviousAtStart(w, s) THEN w
    ELSE IF ~PyValid(w, s, Index(w, s) - 1) THEN Raise(w, "IndexError")
    ELSE _post_next([w EXCEPT !.page[s] = PyPos(w, s, Index(w, s) - 1)], s)

\* to_first
to_first(w, s) ==
    IF Len(w.pages[s]) = 0 THEN Raise(w, "IndexError")
    ELSE _post_next([w EXCEPT !.page[s] = 1], s)

\* to_last
to_last(w, s) ==
    IF Len(w.pages[s]) = 0 THEN Raise(w, "IndexError")
    ELSE _post_next([w EXCEPT !.page[s] = Len(w.pages[s])], s)

\* go_to(page: int) clamping the page number into 0 .. len(pages) - 1
go_to_clamped(w, s, i) ==
    IF Len(w.pages[s]) = 0 THEN Raise(w, "IndexError")
    ELSE _post_next([w EXCEPT !.page[s] =
                        IF i < 0 THEN 1 ELSE IF i >= Len(w.pages[s]) THEN Len(w.pages[s]) ELSE i + 1], s)

\* go_to(page: int)
go_to(w, s, i) ==
    IF ~PyValid(w, s, i) THEN Raise(w, "IndexError")
    ELSE _post_next([w EXCEPT !.page[s] = PyPos(w, s, i)], s)

\* the loop of go_to(page: str) from page i on: the position of the first
\* page whose on_next_event.__name__ is name, 0 when the loop ends without a
\* match; a page without hook has on_next_event None, which has no __name__
RECURSIVE FindByName(_, _, _)
FindByName(pgs, i, name) ==
    IF i > Len(pgs) THEN [exc |-> "none", pos |-> 0]
    ELSE IF pgs[i].on_next = "None" THEN [exc |-> "AttributeError", pos |-> 0]
    ELSE IF pgs[i].on_next = name THEN [exc |-> "none", pos |-> i]
    ELSE FindByName(pgs, i + 1, name)

\* go_to(page: str)
go_to_name(w, s, name) ==
    LET r == FindByName(w.pages[s], 1, name)
    IN  IF r.exc # "none" THEN Raise(w, r.exc)
        ELSE IF w.page[s] = 0 THEN Raise(w, "AttributeError")
        ELSE _post_next([w EXCEPT !.page[s] = IF r.pos # 0 THEN r.pos ELSE @], s)

\* _cleanup_output
_cleanup_output(w, s) ==
    IF persist[s] THEN w
    ELSE IF w.output[s] = NoMsg THEN Raise(w, "AttributeError")
    ELSE [w EXCEPT !.output[s] = NoMsg, !.deleted = TRUE]

\* _execute_cancel going on to its own cleanup after the on_cancel hook
_execute_cancel_double_clean(w, s) ==
    IF w.page[s] = 0 THEN Raise(w, "AttributeError")
    ELSE LET w0 == IF w.pages[s][w.page[s]].on_cancel THEN [w EXCEPT !.cancelCalls = @ + 1] ELSE w
             w1 == _cleanup_output(w0, s)
             w2 == IF w1.exc # "none" THEN w1 ELSE close_session(w1, s)
         IN  IF w2.exc # "none" THEN w2 ELSE [w2 EXCEPT !.active[s] = FALSE]

\* _execute_cancel (close() awaits it); an on_cancel hook is the caller's
\* code, counted and otherwise without effect on the menu
_execute_cancel(w, s) ==
    IF w.page[s] = 0 THEN Raise(w, "AttributeError")
    ELSE IF w.pages[s][w.page[s]].on_cancel THEN [w EXCEPT !.cancelCalls = @ + 1]
    ELSE LET w1 == _cleanup_output(w, s)
             w2 == IF w1.exc # "none" THEN w1 ELSE close_session(w1, s)
         IN  IF w2.exc # "none" THEN w2 ELSE [w2 EXCEPT !.active[s] = FALSE]

\* _execute_timeout
_execute_timeout(w, s) ==
    IF w.pages[s][w.page[s]].on_timeout THEN [w EXCEPT !.timeoutCalls = @ + 1]
    ELSE LET w1 == send_message(w, s, TimedOutEmbed)
             w2 == IF w1.exc # "none" THEN w1 ELSE close_session(w1, s)
         IN  IF w2.exc # "none" THEN w2 ELSE [w2 EXCEPT !.active[s] = FALSE]

\* _open; _cleanup_input deletes the command message, which no menu reads
_open(w, s) ==
    IF Len(w.pages[s]) = 0 THEN w
    ELSE LET w1 == _start_session(w, s)
         IN  IF w1.exc # "none" THEN w1
             ELSE update_history(
                    [w1 EXCEPT !.output[s] = [kind |-> "Message", content |-> w1.page[s], reactions |-> {}],
                               !.input[s] = CtxMessage,
                               !.rendered = TRUE], s)

\* add_pages: indices are assigned by enumerate() over the list passed in
RECURSIVE Indexed(_, _)
Indexed(batch, i) ==
    IF i > Len(batch) THEN <<>>
    ELSE <<[index |-> i - 1, on_next |-> batch[i].on_next, buttons |-> batch[i].buttons,
            on_cancel |-> batch[i].on_cancel, on_timeout |-> batch[i].on_timeout,
            on_fail |-> batch[i].on_fail]>> \o Indexed(batch, i + 1)

add_pages(w, s, batch) ==
    [w EXCEPT !.pages[s] = @ \o Indexed(batch, 1), !.page[s] = 1]

\* --------------------------------------------------------- ButtonMenu
\* _check_buttons: a button is a valid emoji or the call raises ButtonsError
ValidEmoji(b) == b \in Buttons

\* the loop of _validate_buttons from page i on, with _cb_count = cb so far
RECURSIVE ValidateLoop(_, _, _)
ValidateLoop(pgs, i, cb) ==
    IF i > Len(pgs) THEN [exc |-> "none", cb |-> cb]
    ELSE IF pgs[i].buttons = {} THEN [exc |-> "none", cb |-> cb]
    ELSE IF \E b \in pgs[i].buttons : ~ValidEmoji(b) THEN [exc |-> "ButtonsError", cb |-> cb]
    ELSE ValidateLoop(pgs, i + 1, IF pgs[i].on_next # "None" THEN cb + 1 ELSE cb)

\* the last test of _validate_buttons
MissingCaptures(cb, n) == cb < n - 1

\* _validate_buttons
_validate_buttons(w, s) ==
    LET r == ValidateLoop(w.pages[s], 1, 0)
    IN  IF r.exc # "none" THEN Raise(w, r.exc)
        ELSE IF w.page[s] = 0 THEN Raise(w, "AttributeError")
        ELSE IF w.pages[s][w.page[s]].on_fail THEN Raise(w, "EventError")
        ELSE IF MissingCaptures(r.cb, Len(w.pages[s])) THEN Raise(w, "EventError")
        ELSE w

\* _add_buttons
_add_buttons(w, s) ==
    IF w.pages[s][w.page[s]].buttons = {} THEN w
    ELSE IF w.output[s] = NoMsg THEN Raise(w, "AttributeError")
    ELSE [w EXCEPT !.output[s].reactions = @ \cup w.pages[s][w.page[s]].buttons]

\* _cleanup_reactions is called by open() and defined outside these sources:
\* it strips the reactions of the output message where the channel allows
_cleanup_reactions(w, s) ==
    IF w.output[s] # NoMsg /\ IsGuild(s) THEN [w EXCEPT !.output[s].reactions = {}] ELSE w

\* the test open() takes for "the page changed"
PageChanged(w, s) == last_visited_page(w, s) # Index(w, s)

\* the head of one iteration of `while self.active` up to the racer's wait;
\* remove_reaction takes the user's reaction off, the bot's buttons stay
IterHead(w, s, first) ==
    IF ~w.active[s] THEN w
    ELSE IF w.output[s] = NoMsg THEN Raise(w, "AttributeError")
    ELSE IF ~first /\ PageChanged(w, s) THEN _add_buttons([w EXCEPT !.readded = TRUE], s)
    ELSE w

\* the part of open() before the loop: validation, _open, the first buttons
OpenPrologue(w, s) ==
    LET w1 == _validate_buttons(w, s)
        w2 == IF w1.exc # "none" THEN w1 ELSE _open(w1, s)
    IN  IF w2.exc # "none" THEN w2 ELSE _add_buttons(w2, s)

\* what `return` hands back from _get_input once a source has resolved with
\* result r: the method stores r in self.input and falls off its end
GetInputReturn(r) == NoInput

\* the on_next hook of the current page, called with the menu: "advance"
\* calls menu.next(), any other hook leaves the menu alone
on_next_event(w, s) ==
    LET w1 == [w EXCEPT !.nextCalls = @ + 1]
    IN  IF w.pages[s][w.page[s]].on_next = "advance" THEN next(w1, s) ELSE w1

\* the rest of the loop body once _get_input has returned ret
AfterInput(w, s, ret) ==
    LET w0 == [w EXCEPT !.input[s] = ret]
    IN  IF ret = NoInput THEN w0
        ELSE LET w1 == on_next_event(w0, s)
             IN  IF w1.exc # "none" THEN w1
                 ELSE IF PageChanged(w1, s) THEN _cleanup_reactions(w1, s)
                 ELSE w1

\* _check_reaction, the default check of both reaction sources
_check_reaction(w, s, ev) ==
    /\ ev.user = Key(s)[1]
    /\ ev.msg = "output"
    /\ ev.emoji \in w.output[s].reactions

\* _get_emoji: the button of the current page the event's emoji names
_get_emoji(w, s, ev) ==
    IF ev.emoji \in w.pages[s][w.page[s]].buttons THEN ev.emoji ELSE NoInput

\* ------------------------------------------------------------ actions
Commit(w) ==
    /\ sessions' = w.sessions
    /\ pages' = w.pages
    /\ page' = w.page
    /\ active' = w.active
    /\ input' = w.input
    /\ output' = w.output
    /\ history' = w.history

\* what the step just taken was and how it ended
Op(name, s, w, btn) ==
    [op |-> name, m |-> s, exc |-> w.exc, btn |-> btn, rendered |-> w.rendered,
     deleted |-> w.deleted, evicted |-> w.evicted, cancelCalls |-> w.cancelCalls,
     timeoutCalls |-> w.timeoutCalls, nextCalls |-> w.nextCalls, arg |-> 0,
     readded |-> w.readded, ev |-> NoEvent, first |-> "none", cancelled |-> {}]

AllPending == [t \in TaskNames |-> [st |-> "pending", result |-> NoInput]]

\* the loop of open() as `while True`: the test of self.active left out
PcAfterHead_ignore_active(w, s) == IF w.exc # "none" THEN "raised" ELSE "waiting"

\* where open() stands once the head of an iteration has run in world w
PcAfterHead(w, s) ==
    IF w.exc # "none" THEN "raised" ELSE IF w.active[s] THEN "waiting" ELSE "returned"

Init ==
    /\ sessions = [i \in Identities |-> NoMenu]
    /\ ident \in [Menus -> Identities]
    /\ pages = [s \in Menus |-> <<>>]
    /\ page = [s \in Menus |-> 0]
    /\ active = [s \in Menus |-> TRUE]
    /\ input = [s \in Menus |-> NoInput]
    /\ output = [s \in Menus |-> NoMsg]
    /\ history = [s \in Menus |-> <<>>]
    /\ persist = [s \in Menus |-> FALSE]
    /\ timeoutAttr = [s \in Menus |-> FALSE]
    /\ pc = [s \in Menus |-> "init"]
    /\ firstIter = [s \in Menus |-> TRUE]
    /\ iterPage = [s \in Menus |-> 0]
    /\ tasks = [s \in Menus |-> [t \in TaskNames |-> NoTask]]
    /\ lastOp = Op("init", "m1", World, NoInput)

\* menu.add_pages(batch)
AddPages(s, batch) ==
    /\ Len(pages[s]) + Len(batch) <= MaxPages
    /\ LET w == add_pages(World, s, batch)
       IN  Commit(w) /\ lastOp' = Op("add_pages", s, w, NoInput)
    /\ UNCHANGED <<ident, persist, timeoutAttr, pc, firstIter, iterPage, tasks>>

\* add_pages called once, before anything else
AddPagesOnce(s, batch) == pages[s] = <<>> /\ AddPages(s, batch)

\* menu.persist_on_close()
PersistOnClose(s) ==
    /\ ~persist[s]
    /\ persist' = [persist EXCEPT ![s] = TRUE]
    /\ lastOp' = Op("persist_on_close", s, World, NoInput)
    /\ UNCHANGED <<sessions, ident, pages, page, active, input, output, history,
                   timeoutAttr, pc, firstIter, iterPage, tasks>>

\* menu.set_timeout(n): self._timeout becomes an int
SetTimeout(s) ==
    /\ ~timeoutAttr[s]
    /\ timeoutAttr' = [timeoutAttr EXCEPT ![s] = TRUE]
    /\ lastOp' = Op("set_timeout", s, World, NoInput)
    /\ UNCHANGED <<sessions, ident, pages, page, active, input, output, history,
                   persist, pc, firstIter, iterPage, tasks>>

\* a call of one of the menu's methods by a hook or another coroutine
Call(name, s, w) ==
    /\ Commit(w)
    /\ lastOp' = Op(name, s, w, NoInput)
    /\ UNCHANGED <<ident, persist, timeoutAttr, pc, firstIter, iterPage, tasks>>

NextPage(s) == Call("next", s, next(World, s))
PreviousPage(s) == Call("previous", s, previous(World, s))
ToFirst(s) == Call("to_first", s, to_first(World, s))
ToLast(s) == Call("to_last", s, to_last(World, s))
GoTo(s, i) ==
    /\ Commit(go_to(World, s, i))
    /\ lastOp' = [Op("go_to", s, go_to(World, s, i), NoInput) EXCEPT !.arg = i]
    /\ UNCHANGED <<ident, persist, timeoutAttr, pc, firstIter, iterPage, tasks>>
Close(s) == Call("close", s, _execute_cancel(World, s))
HookNames == {"advance", "reload", "missing"}
GoToName(s, name) ==
    /\ Commit(go_to_name(World, s, name))
    /\ lastOp' = [Op("go_to_name", s, go_to_name(World, s, name), NoInput) EXCEPT !.btn = name]
    /\ UNCHANGED <<ident, persist, timeoutAttr, pc, firstIter, iterPage, tasks>>

\* menu.open() up to the first wait of the racer; ButtonsError, EventError
\* and SessionError are caught and logged, open() then returns
Open(s) ==
    /\ pc[s] # "waiting"
    /\ LET w1 == OpenPrologue(World, s)
           caught == w1.exc \in {"ButtonsError", "EventError", "SessionError"}
           w2 == IF w1.exc # "none" THEN w1 ELSE IterHead(w1, s, TRUE)
       IN  /\ Commit(w2)
           /\ lastOp' = Op("open", s, w2, NoInput)
           /\ pc' = [pc EXCEPT ![s] = IF caught THEN "returned" ELSE PcAfterHead(w2, s)]
           /\ tasks' = [tasks EXCEPT ![s] = IF ~caught /\ PcAfterHead(w2, s) = "waiting"
                                            THEN AllPending ELSE @]
           /\ firstIter' = [firstIter EXCEPT ![s] = TRUE]
           /\ iterPage' = [iterPage EXCEPT ![s] = IF w2.page[s] = 0 THEN 0 ELSE Index(w2, s)]
    /\ UNCHANGED <<ident, persist, timeoutAttr>>

\* a raw reaction event reaches the reaction source `kind` of menu s, which
\* waits until it is cancelled, whether or not open() still runs; the check
\* reads self.output.id once the user matched and raises when output is None
ReactionEvent(s, kind, ev) ==
    /\ tasks[s][kind].st = "pending"
    /\ tasks' = [tasks EXCEPT ![s][kind] =
                    IF ev.user = Key(s)[1] /\ output[s] = NoMsg
                    THEN [st |-> "failed", result |-> NoInput]
                    ELSE IF _check_reaction(World, s, ev)
                         THEN [st |-> "done", result |-> _get_emoji(World, s, ev)]
                         ELSE @]
    /\ lastOp' = [Op(kind, s, World, ev.emoji) EXCEPT !.ev = ev]
    /\ UNCHANGED <<sessions, ident, pages, page, active, input, output, history,
                   persist, timeoutAttr, pc, firstIter, iterPage>>

\* _shortcircuit: the poll sees self.active False and returns
ShortCircuit(s) ==
    /\ tasks[s]["poll"].st = "pending"
    /\ ~active[s]
    /\ tasks' = [tasks EXCEPT ![s]["poll"] = [st |-> "done", result |-> NoInput]]
    /\ lastOp' = Op("poll", s, World, NoInput)
    /\ UNCHANGED <<sessions, ident, pages, page, active, input, output, history,
                   persist, timeoutAttr, pc, firstIter, iterPage>>

\* asyncio.wait returns at its timeout with all three sources pending:
\* _get_input awaits self._timeout(), which is no method: self._timeout is
\* the int set by set_timeout or no attribute at all
WaitTimeout(s) ==
    /\ pc[s] = "waiting"
    /\ \A t \in TaskNames : tasks[s][t].st = "pending"
    /\ LET w == Raise(World, IF timeoutAttr[s] THEN "TypeError" ELSE "AttributeError")
       IN  Commit(w) /\ lastOp' = Op("timeout", s, w, NoInput)
    /\ pc' = [pc EXCEPT ![s] = "raised"]
    /\ UNCHANGED <<ident, persist, timeoutAttr, firstIter, iterPage, tasks>>

\* `for task in pending: task.cancel()`: the sources the racer cancels
CancelPending(ts) == {t \in TaskNames : ts[t].st = "pending"}

\* asyncio.wait returns because a source completed; first is the source the
\* loop over `done` meets first.  The pending sources are cancelled, the
\* loop body finishes and the next iteration runs up to its wait.
Resume(s, first) ==
    /\ pc[s] = "waiting"
    /\ tasks[s][first].st \in {"done", "failed"}
    /\ LET r == tasks[s][first]
           w0 == IF r.st = "failed" THEN Raise(World, "AttributeError")
                 ELSE IF r.result # NoInput THEN [World EXCEPT !.input[s] = r.result]
                 ELSE World
           w1 == IF w0.exc # "none" THEN w0 ELSE AfterInput(w0, s, GetInputReturn(r.result))
           w2 == IF w1.exc # "none" THEN w1 ELSE IterHead(w1, s, FALSE)
       IN  /\ Commit(w2)
           /\ lastOp' = [Op("resume", s, w2, r.result) EXCEPT
                            !.first = first, !.cancelled = CancelPending(tasks[s])]
           /\ pc' = [pc EXCEPT ![s] = PcAfterHead(w2, s)]
           /\ tasks' = [tasks EXCEPT ![s] =
                          IF PcAfterHead(w2, s) = "waiting" THEN AllPending
                          ELSE [t \in TaskNames |->
                                  IF t \in CancelPending(tasks[s])
                                  THEN [st |-> "cancelled", result |-> NoInput]
                                  ELSE tasks[s][t]]]
           /\ firstIter' = [firstIter EXCEPT ![s] = FALSE]
           /\ iterPage' = [iterPage EXCEPT ![s] = Index(w2, s)]
    /\ UNCHANGED <<ident, persist, timeoutAttr>>

Events == [user : {"u1", "u2"}, msg : {"output", "other"}, emoji : Buttons \cup {"stray"}]

\* the first menu alone: pages, configuration, open, navigation and close,
\* called while the racer of an opened menu waits
NavBatches == PageBatches
Next ==
    \/ \E batch \in NavBatches : AddPages("m1", batch)
    \/ PersistOnClose("m1")
    \/ Open("m1")
    \/ NextPage("m1")
    \/ PreviousPage("m1")
    \/ ToFirst("m1")
    \/ ToLast("m1")
    \/ \E i \in (0 - MaxPages) - 1 .. MaxPages : GoTo("m1", i)
    \/ \E name \in HookNames : GoToName("m1", name)
    \/ Close("m1")

Spec == Init /\ [][Next]_vars

\* the first menu alone, with the racer's sources and the loop of open()
LoopBatches == {<<Adv, Term>>, <<AdvHooks, Term>>, <<AdvHooks, Adv, Term>>}
NextLoop ==
    \/ \E batch \in LoopBatches : AddPagesOnce("m1", batch)
    \/ SetTimeout("m1")
    \/ Open("m1")
    \/ NextPage("m1")
    \/ Close("m1")
    \/ \E kind \in {"add", "remove"}, ev \in Events : ReactionEvent("m1", kind, ev)
    \/ ShortCircuit("m1")
    \/ WaitTimeout("m1")
    \/ \E first \in TaskNames : Resume("m1", first)

SpecLoop == Init /\ [][NextLoop]_vars

\* two menus, of the same identity or not, competing for the registry
PairBatches == {<<Adv, Term>>}
NextPair ==
    \/ \E s \in Menus, batch \in PairBatches : AddPagesOnce(s, batch)
    \/ \E s \in Menus : Open(s)
    \/ \E s \in Menus : NextPage(s)
    \/ \E s \in Menus : Close(s)
    \/ \E s \in Menus : ShortCircuit(s)
    \/ \E s \in Menus, first \in TaskNames : Resume(s, first)

SpecPair == Init /\ [][NextPair]_vars

\* open() on every page list of up to MaxPages pages, next to a second
\* menu that competes for the registry
PageKinds == [on_next : {"None", "advance"}, buttons : {{}, {"b1"}, {"bad"}},
              on_cancel : {FALSE}, on_timeout : {FALSE}, on_fail : BOOLEAN]
PageLists == UNION {[1 .. n -> PageKinds] : n \in 1 .. MaxPages}

InitV ==
    /\ sessions = [i \in Identities |-> NoMenu]
    /\ ident \in [Menus -> Identities]
    /\ \E l \in PageLists : pages = [s \in Menus |-> IF s = "m1" THEN Indexed(l, 1)
                                                      ELSE Indexed(<<Adv, Term>>, 1)]
    /\ page = [s \in Menus |-> 1]
    /\ active = [s \in Menus |-> TRUE]
    /\ input = [s \in Menus |-> NoInput]
    /\ output = [s \in Menus |-> NoMsg]
    /\ history = [s \in Menus |-> <<>>]
    /\ persist = [s \in Menus |-> FALSE]
    /\ timeoutAttr = [s \in Menus |-> FALSE]
    /\ pc = [s \in Menus |-> "init"]
    /\ firstIter = [s \in Menus |-> TRUE]
    /\ iterPage = [s \in Menus |-> 0]
    /\ tasks = [s \in Menus |-> [t \in TaskNames |-> NoTask]]
    /\ lastOp = Op("init", "m1", World, NoInput)

NextV == \E s \in Menus : Open(s)

SpecV == InitV /\ [][NextV]_vars

\* ------------------------------------------------------------- claims
CurPage(s) == pages[s][page[s]]
Rejected == {"ButtonsError", "EventError"}
NavNames == {"next", "previous", "to_first", "to_last", "go_to"}

\* C1: an open() for an identity whose registry entry is held by an active
\* session aborts: nothing is rendered, the loop is not entered, the entry
\* still names the first session and no field of any menu has changed (the
\* registry maps an identity to one menu, so two are never registered).
C1_DuplicateOpenAborts ==
    [][\A s \in Menus :
         (lastOp'.op = "open" /\ lastOp'.m = s
            /\ sessions[Key(s)] # NoMenu /\ active[sessions[Key(s)]])
         => /\ sessions' = sessions
            /\ ~lastOp'.rendered
            /\ pc'[s] # "waiting"
            /\ UNCHANGED <<pages, page, active, input, output, history, tasks>>]_vars

C1_Witness ==
    /\ lastOp.op = "open" /\ lastOp.exc = "SessionError"
    /\ \E t \in Menus : t # lastOp.m /\ sessions[Key(lastOp.m)] = t /\ active[t] /\ pc[t] = "waiting"

\* C2: when the racer's wait times out with no source resolved, the step is
\* one run of the timeout protocol and, on a page without on_timeout hook,
\* the session is then inactive, its identity unregistered and open() returned.
C2_TimeoutProtocolRuns ==
    [][\A s \in Menus :
         (lastOp'.op = "timeout" /\ lastOp'.m = s)
         => LET w == _execute_timeout(World, s)
            IN  /\ sessions' = w.sessions /\ active' = w.active /\ output' = w.output
                /\ lastOp'.timeoutCalls = w.timeoutCalls
                /\ ~CurPage(s).on_timeout
                     => ~active'[s] /\ sessions'[Key(s)] = NoMenu /\ pc'[s] = "returned"]_vars

\* C3: when a reaction source wins the race with a button of the current
\* page, the button is the menu's input for the iteration and the page's
\* on_next hook has been called once in it; from <<P0 advancing, P1 terminal>>
\* the press ends on P1 with the session inactive and unregistered.
C3_PressInvokesHook ==
    [][\A s \in Menus :
         (lastOp'.op = "resume" /\ lastOp'.m = s /\ lastOp'.btn # NoInput)
         => /\ input'[s] = lastOp'.btn
            /\ lastOp'.nextCalls = 1
            /\ (Len(pages[s]) = 2 /\ page[s] = 1 /\ CurPage(s).on_next = "advance"
                  /\ pages[s][2].on_next = "None" /\ sessions[Key(s)] = s)
               => page'[s] = 2 /\ ~active'[s] /\ sessions'[Key(s)] = NoMenu]_vars

\* C4: a navigation call that moves (next and previous off the boundary,
\* to_first, to_last, go_to) and returns has appended the new page's index
\* to the history and rendered the new page; on a page without on_next hook
\* the session is then unregistered and inactive, on a page with one an
\* active registered session stays active and registered.
Moves(s) ==
    /\ lastOp'.m = s /\ lastOp'.exc = "none"
    /\ \/ lastOp'.op \in {"to_first", "to_last", "go_to", "go_to_name"}
       \/ lastOp'.op = "next" /\ ~(Index(World, s) + 1 > Len(pages[s]) - 1)
       \/ lastOp'.op = "previous" /\ ~(Index(World, s) - 1 < 0)

C4_PostNavigation ==
    [][\A s \in Menus :
         Moves(s)
         => LET new == pages'[s][page'[s]]
                kept == IF Len(history[s]) >= HISTORY_CACHE_LIMIT THEN Tail(history[s]) ELSE history[s]
            IN  /\ history'[s] = Append(kept, new.index)
                /\ lastOp'.rendered /\ output'[s].content = page'[s]
                /\ new.on_next = "None" => ~active'[s] /\ sessions'[Key(s)] = NoMenu
                /\ (new.on_next # "None" /\ active[s] /\ sessions[Key(s)] = s)
                     => active'[s] /\ sessions'[Key(s)] = s]_vars

C4_Witness ==
    /\ lastOp.op \in NavNames /\ lastOp.exc = "none" /\ lastOp.rendered
    /\ CurPage(lastOp.m).on_next = "None"
    /\ ~active[lastOp.m] /\ sessions[Key(lastOp.m)] = NoMenu
    /\ output[lastOp.m].content = page[lastOp.m]

\* C5: open() of a page list whose last page has an on_next hook is rejected
\* by the validation: not registered, nothing rendered, loop not entered.
C5_LastPageHookRejected ==
    \A s \in Menus :
        (lastOp.op = "open" /\ lastOp.m = s /\ pages[s][Len(pages[s])].on_next # "None")
        => /\ lastOp.exc \in Rejected
           /\ ~lastOp.rendered /\ pc[s] # "waiting" /\ sessions[Key(s)] # s

\* C6: open() of a page list in which a page has an on_next hook and no
\* button is rejected by the validation, and an open() the validation
\* rejects leaves the registry as it was, renders nothing and starts no racer.
C6_HookWithoutButtonsRejected ==
    [][\A s \in Menus :
         (lastOp'.op = "open" /\ lastOp'.m = s)
         => /\ (\E i \in 1 .. Len(pages[s]) : pages[s][i].on_next # "None" /\ pages[s][i].buttons = {})
                 => lastOp'.exc \in Rejected
            /\ lastOp'.exc \in Rejected
                 => sessions' = sessions /\ ~lastOp'.rendered /\ output' = output
                    /\ pc'[s] = "returned" /\ tasks' = tasks]_vars

\* C7: open() of a menu of exactly one page is rejected by the validation
\* and the menu is not registered.
C7_SinglePageRejected ==
    \A s \in Menus :
        (lastOp.op = "open" /\ lastOp.m = s /\ Len(pages[s]) = 1)
        => lastOp.exc \in Rejected /\ sessions[Key(s)] # s

\* C8: next() on the page of index len(pages)-1 and previous() on the page
\* of index 0 return without raising and change nothing; to_first() called
\* right after to_last() leaves the page of index 0 current.
C8_BoundaryPolicy ==
    [][\A s \in Menus :
         /\ (lastOp'.m = s /\ page[s] # 0
               /\ \/ lastOp'.op = "next" /\ Index(World, s) = Len(pages[s]) - 1
                  \/ lastOp'.op = "previous" /\ Index(World, s) = 0)
            => /\ lastOp'.exc = "none" /\ ~lastOp'.rendered
               /\ UNCHANGED <<sessions, pages, page, active, input, output, history, pc, tasks>>
         /\ (lastOp.op = "to_last" /\ lastOp.m = s /\ lastOp'.op = "to_first" /\ lastOp'.m = s
               /\ pages[s] # <<>>)
            => pages'[s][page'[s]].index = 0]_vars

C8_Witness ==
    /\ lastOp.op = "next" /\ lastOp.exc = "none" /\ ~lastOp.rendered
    /\ pc[lastOp.m] = "waiting" /\ active[lastOp.m]
    /\ Len(pages[lastOp.m]) > 1
    /\ CurPage(lastOp.m).index = Len(pages[lastOp.m]) - 1

\* C9: the history never holds more than HISTORY_CACHE_LIMIT entries, and
\* every change of it is one FIFO update: the oldest entry leaves when the
\* history is full, the others keep their order, and the entry appended is
\* the index of the page current after the call.
C9_HistoryFifo ==
    /\ [](\A s \in Menus : Len(history[s]) <= HISTORY_CACHE_LIMIT)
    /\ [][\A s \in Menus :
            history'[s] # history[s]
            => /\ Len(history[s]) < HISTORY_CACHE_LIMIT
                    => history'[s] = Append(history[s], pages'[s][page'[s]].index)
               /\ Len(history[s]) >= HISTORY_CACHE_LIMIT
                    => history'[s] = Append(Tail(history[s]), pages'[s][page'[s]].index)]_vars

C9_Witness ==
    /\ lastOp.evicted /\ lastOp.exc = "none"
    /\ Len(history[lastOp.m]) = HISTORY_CACHE_LIMIT
    /\ history[lastOp.m][HISTORY_CACHE_LIMIT] = CurPage(lastOp.m).index
    /\ history[lastOp.m][1] # history[lastOp.m][HISTORY_CACHE_LIMIT]

\* C10: close() on a page with an on_cancel hook calls the hook once and
\* touches neither the output, the registry nor the active flag; close() of
\* an open session on a page without one deletes the output message unless
\* persist_on_close was configured, unregisters the identity and marks the
\* session inactive.
C10_ClosePolicy ==
    [][\A s \in Menus :
         (lastOp'.op = "close" /\ lastOp'.m = s /\ page[s] # 0)
         => /\ CurPage(s).on_cancel
                 => /\ lastOp'.cancelCalls = 1 /\ lastOp'.exc = "none" /\ ~lastOp'.deleted
                    /\ UNCHANGED <<output, sessions, active>>
            /\ (~CurPage(s).on_cancel /\ sessions[Key(s)] = s /\ output[s] # NoMsg)
                 => /\ lastOp'.cancelCalls = 0 /\ lastOp'.exc = "none"
                    /\ IF persist[s] THEN output' = output /\ ~lastOp'.deleted
                       ELSE output'[s] = NoMsg /\ lastOp'.deleted
                    /\ sessions'[Key(s)] = NoMenu /\ ~active'[s]]_vars

C10_Witness ==
    /\ lastOp.op = "close" /\ lastOp.exc = "none" /\ lastOp.deleted
    /\ ~CurPage(lastOp.m).on_cancel /\ ~persist[lastOp.m]
    /\ output[lastOp.m] = NoMsg /\ sessions[Key(lastOp.m)] = NoMenu /\ ~active[lastOp.m]

\* C11 as claimed: the index of the current page lies in 0 .. len(pages) - 1
\* and go_to(i) with i outside 0 .. len(pages) - 1 raises IndexError and
\* leaves the current page as it was.
C11_GoToOutOfRangeRaises ==
    /\ [](\A s \in Menus : page[s] # 0 => CurPage(s).index \in 0 .. Len(pages[s]) - 1)
    /\ [][\A s \in Menus :
            (lastOp'.op = "go_to" /\ lastOp'.m = s
               /\ lastOp'.arg \notin 0 .. Len(pages[s]) - 1)
            => lastOp'.exc = "IndexError" /\ page'[s] = page[s]]_vars

\* C11 amended: the index of the current page lies in 0 .. len(pages) - 1;
\* go_to(i) with i >= len(pages) or i < -len(pages) raises IndexError and
\* changes nothing; go_to(i) with -len(pages) <= i < 0 does not raise for
\* the range: it selects the page at position len(pages) + i.
C11_GoToPythonIndexing ==
    /\ [](\A s \in Menus : page[s] # 0 => CurPage(s).index \in 0 .. Len(pages[s]) - 1)
    /\ [][\A s \in Menus :
            (lastOp'.op = "go_to" /\ lastOp'.m = s)
            => /\ (lastOp'.arg >= Len(pages[s]) \/ lastOp'.arg < 0 - Len(pages[s]))
                    => /\ lastOp'.exc = "IndexError" /\ ~lastOp'.rendered
                       /\ UNCHANGED <<sessions, pages, page, active, input, output, history>>
               /\ (lastOp'.arg < 0 /\ lastOp'.arg >= 0 - Len(pages[s]))
                    => lastOp'.exc # "IndexError" /\ page'[s] = Len(pages[s]) + lastOp'.arg + 1]_vars

C11_Witness ==
    /\ lastOp.op = "go_to" /\ lastOp.exc = "IndexError"
    /\ lastOp.arg >= Len(pages[lastOp.m]) /\ Len(pages[lastOp.m]) > 1
    /\ pc[lastOp.m] = "waiting" /\ page[lastOp.m] = 2

\* C12: after any sequence of add_pages calls every page's index is its
\* position in self.pages (0 .. n-1 in list order, no index twice) and the
\* current page is the page of index 0 at the head of the list.
C12_IndexIsPosition ==
    \A s \in Menus :
        pages[s] # <<>>
        => /\ \A i \in 1 .. Len(pages[s]) : pages[s][i].index = i - 1
           /\ lastOp.op = "add_pages" /\ lastOp.m = s => page[s] = 1 /\ CurPage(s).index = 0

\* C13: go_to(name) with no page whose on_next hook has that name returns
\* without raising and changes neither the current page, the history, the
\* active flag, the registry nor the output; with a match it makes the first
\* matching page current.
C13_GoToNameNoMatch ==
    [][\A s \in Menus :
         (lastOp'.op = "go_to_name" /\ lastOp'.m = s /\ page[s] # 0)
         => LET hits == {i \in 1 .. Len(pages[s]) : pages[s][i].on_next = lastOp'.btn}
            IN  /\ hits = {}
                     => /\ lastOp'.exc = "none" /\ ~lastOp'.rendered
                        /\ UNCHANGED <<sessions, page, active, output, history>>
                /\ hits # {} => \A i \in hits : (\A j \in hits : i <= j) => page'[s] = i]_vars

\* C14: when the racer returns because a source completed, every source
\* still pending is cancelled, no step of a source changes a field of the
\* menu, and the iteration's input is the one value of the source the racer
\* took, whichever source that is and however many had completed.
C14_OneWinner ==
    [][\A s \in Menus :
         /\ (lastOp'.op \in TaskNames /\ lastOp'.m = s)
            => UNCHANGED <<sessions, pages, page, active, input, output, history, pc>>
         /\ (lastOp'.op = "resume" /\ lastOp'.m = s /\ tasks[s][lastOp'.first].st = "done")
            => /\ lastOp'.cancelled = {t \in TaskNames : tasks[s][t].st = "pending"}
               /\ \A t \in lastOp'.cancelled : tasks'[s][t].st # "pending" \/ pc'[s] = "waiting"
               /\ input'[s] = tasks[s][lastOp'.first].result]_vars

\* C15: once the loop of open() is past a racer call, by a source completing
\* or by the timeout, none of the sources of that iteration is still pending:
\* sources are pending only while the racer of the current iteration waits.
C15_NoSourceInFlight ==
    \A s \in Menus :
        pc[s] # "waiting" => \A t \in TaskNames : tasks[s][t].st # "pending"

\* C16: the cleanup that unregisters an opened session runs at most once,
\* whatever ends the session and in whatever order: no call made on a menu
\* whose open() registered it and still runs fails for removing a registry
\* entry that is already removed.
C16_CleanupOnce ==
    \A s \in Menus :
        (lastOp.m = s /\ pc[s] = "waiting") => lastOp.exc # "KeyError"

C18_OnlyValidResolves ==
    [][\A s \in Menus, kind \in {"add", "remove"} :
         (lastOp'.op = kind /\ lastOp'.m = s /\ active[s]
            /\ tasks[s][kind].st = "pending" /\ tasks'[s][kind].st = "done")
         => /\ lastOp'.ev.user = Key(s)[1]
            /\ lastOp'.ev.msg = "output"
            /\ lastOp'.ev.emoji \in output[s].reactions
            /\ lastOp'.ev.emoji \in CurPage(s).buttons]_vars

\* C19: at the start of every iteration of the loop but the first, the
\* buttons of the page are added again exactly when the current page is not
\* the page that was current at the start of the previous iteration.
C19_ReaddIffPageChanged ==
    [][\A s \in Menus :
         (lastOp'.op = "resume" /\ lastOp'.m = s /\ lastOp'.exc = "none" /\ active'[s])
         => (lastOp'.readded <=> Index([World EXCEPT !.page = page'], s) # iterPage[s])]_vars

\* C20: a registry entry is removed only by a step of the menu that
\* registered it: no close(), timeout or navigation of another menu of the
\* same identity removes the entry of a menu that is still active.
C20_OnlyOwnerRemoves ==
    [][\A i \in Identities, t \in Menus :
         (sessions[i] = t /\ sessions'[i] # t) => lastOp'.m = t]_vars

\* C21: every menu the registry holds is active: whenever the registry maps
\* an identity to a menu, the active flag of that menu is True.
C21_RegisteredIsActive ==
    \A i \in Identities : sessions[i] # NoMenu => active[sessions[i]]
====
